---- MODULE Spec2Model ----
(***************************************************************************)
(* Model of package num (jakebowkett/go-num): Encode, Alpha, Roman, Word,  *)
(* WordFloat and Bytes.                                                    *)
(*                                                                         *)
(* A Go string is modelled as a sequence of characters (code points), each *)
(* a TLA+ string: the character itself when it is ASCII, its name "U+xxxx" *)
(* otherwise; the empty Go string is <<>>.  A Go int is                    *)
(* modelled with the width of a 32-bit platform (GOARCH=386/arm), the      *)
(* widest that TLC's integers can hold; the arithmetic that can leave      *)
(* that range (negation) wraps as Go's does.                               *)
(*                                                                         *)
(* A Go error is a record [msg, arg]: msg is the format string of the      *)
(* errors.New / fmt.Errorf call, arg the formatted argument (a Go string), *)
(* and nil is the error with msg "nil".                                    *)
(*                                                                         *)
(* A float64 argument of WordFloat is modelled as a decimal fixed-point    *)
(* number: the integer f stands for the value f / 10^FracDigits, and the   *)
(* arithmetic on it is exact.                                              *)
(*                                                                         *)
(* The file history holds four revisions of Encode.  Encode is the newest  *)
(* (strings.Split, alphabet of at least two characters); Encode_NFC is the *)
(* one before it (norm.NFC characters, at least two); Encode_permissive    *)
(* has no minimum length and is modelled one loop iteration at a time;     *)
(* Encode_earlier is the first (n incremented, quotient decremented, no    *)
(* validation of the alphabet).                                            *)
(***************************************************************************)
EXTENDS Integers, Sequences, FiniteSets, TLC

VARIABLES fn, n, encoding, f, precision, pc, ret, err, frame

\* The function called and its arguments.
inputs == <<fn, n, encoding, f, precision>>

vars == <<inputs, pc, ret, err, frame>>

(***************************************************************************)
(* Bounds of the model.                                                    *)
(***************************************************************************)
MaxAlphabetLen == 3
MaxEncodeN == 40
MaxNegative == 3
MaxAlphaN == 110
MaxRomanN == 4100
MaxWordN == 1250
FracDigits == 3
MaxFloat == 1300
MaxPrecision == 3
MaxBytesN == 2100
BytesWindow == 3
MaxIterations == 20

(***************************************************************************)
(* Go int arithmetic.                                                      *)
(***************************************************************************)
\* The largest and the smallest Go int of a 32-bit platform.
MaxInt == 2147483647

MinInt == -MaxInt - 1

\* -x on a Go int: two's complement, so -MinInt = MinInt.
Neg(x) == IF x = MinInt THEN MinInt ELSE -x

\* x / y on Go ints, y > 0: the quotient truncated toward zero.
Quo(x, y) ==
    IF x >= 0 \/ x % y = 0 THEN x \div y ELSE (x \div y) + 1

\* x % y on Go ints, y > 0: the remainder has the sign of x.
Rem(x, y) == x - Quo(x, y) * y

(***************************************************************************)
(* Strings.                                                                *)
(***************************************************************************)
\* strings.Repeat(s, count) and repeat(s, n).
RECURSIVE Repeat(_, _)
Repeat(s, count) == IF count <= 0 THEN <<>> ELSE s \o Repeat(s, count - 1)

\* strings.HasSuffix(s, suffix).
HasSuffix(s, suffix) ==
    /\ Len(s) >= Len(suffix)
    /\ SubSeq(s, Len(s) - Len(suffix) + 1, Len(s)) = suffix

\* The decimal digits of x <= 0, most significant first, as %d prints them.
DigitChars == <<"0", "1", "2", "3", "4", "5", "6", "7", "8", "9">>

RECURSIVE NegDigits(_)
NegDigits(x) ==
    IF x = 0 THEN <<>>
    ELSE NegDigits(Quo(x, 10)) \o <<DigitChars[1 - Rem(x, 10)]>>

\* fmt's %d of a Go int.
FormatInt(x) ==
    IF x = 0 THEN <<"0">>
    ELSE IF x < 0 THEN <<"-">> \o NegDigits(x)
    ELSE NegDigits(-x)

\* fmt's %q of a string without characters that need escaping.
Quote(s) == <<"\"">> \o s \o <<"\"">>

nil == [msg |-> "nil", arg |-> <<>>]

\* errors.New(msg) and fmt.Errorf(msg, arg).
NewError(msg, arg) == [msg |-> msg, arg |-> arg]

Return(s, e) == [s |-> s, err |-> e]

(***************************************************************************)
(* Encode and Alpha.                                                       *)
(***************************************************************************)
\* strings.Split(encoding, ""): one string per character of encoding.
Split(s) == [i \in 1..Len(s) |-> <<s[i]>>]

\* The non-starters (combining marks) among the characters of the model:
\* U+0301 is the combining acute accent.
CombiningMarks == {"U+0301"}

\* The canonical compositions of norm.NFC among the characters of the model:
\* a, c, e followed by U+0301 compose to U+00E1, U+0107, U+00E9; b, d and x
\* have no precomposed form with it.
Composition ==
    [base \in {"a", "c", "e"} |->
        CASE base = "a" -> "U+00E1" [] base = "c" -> "U+0107"
          [] base = "e" -> "U+00E9"]

\* One segment of norm.NFC with the combining mark c added to it.
Compose(segment, c) ==
    IF Len(segment) = 1 /\ segment[1] \in DOMAIN Composition
    THEN <<Composition[segment[1]]>>
    ELSE Append(segment, c)

\* The loop of chars from index i on: it.Next() returns the next segment of
\* the NFC form, a starter with the non-starters that follow it.
RECURSIVE charsFrom(_, _, _)
charsFrom(s, i, cc) ==
    IF i > Len(s) THEN cc
    ELSE IF s[i] \in CombiningMarks /\ cc # <<>>
         THEN charsFrom(s, i + 1,
                        [cc EXCEPT ![Len(cc)] = Compose(cc[Len(cc)], s[i])])
         ELSE charsFrom(s, i + 1, Append(cc, <<s[i]>>))

chars(s) == charsFrom(s, 1, <<>>)

\* The loop of uniqueSet from index i on, seen the set of strings met so far.
RECURSIVE uniqueSetFrom(_, _, _)
uniqueSetFrom(ss, i, seen) ==
    IF i > Len(ss) THEN nil
    ELSE IF ss[i] \in seen
         THEN NewError("%q appears multiple times.", Quote(ss[i]))
         ELSE uniqueSetFrom(ss, i + 1, seen \cup {ss[i]})

uniqueSet(ss) == uniqueSetFrom(ss, 1, {})

\* EncodeLoop with the earlier revision's "decremented := quotient - 1".
RECURSIVE EncodeLoopDecrement(_, _, _)
EncodeLoopDecrement(quotient, enc, result) ==
    IF quotient = 0 THEN result
    ELSE LET decremented == quotient - 1
             length == Len(enc)
         IN  EncodeLoopDecrement(Quo(decremented, length), enc,
                                 enc[Rem(decremented, length) + 1] \o result)

\* EncodeLoop appending each digit where the code prepends it.
RECURSIVE EncodeLoopAppend(_, _, _)
EncodeLoopAppend(quotient, enc, result) ==
    IF quotient = 0 THEN result
    ELSE LET decremented == quotient
             length == Len(enc)
         IN  EncodeLoopAppend(Quo(decremented, length), enc,
                              result \o enc[Rem(decremented, length) + 1])

\* The loop of Encode: enc is 0-indexed in Go, 1-indexed here.
RECURSIVE EncodeLoop(_, _, _)
EncodeLoop(quotient, enc, result) ==
    IF quotient = 0 THEN result
    ELSE LET decremented == quotient
             length == Len(enc)
         IN  EncodeLoop(Quo(decremented, length), enc,
                        enc[Rem(decremented, length) + 1] \o result)

\* Encode validating the alphabet before it looks at the sign of n.
EncodeAlphabetFirst(x, enc_string) ==
    IF enc_string = <<>>
    THEN Return(<<>>, NewError("Encoding cannot be an empty string.", <<>>))
    ELSE LET enc == Split(enc_string)
             uerr == uniqueSet(enc)
         IN  IF uerr # nil THEN Return(<<>>, uerr)
             ELSE IF x < 0
             THEN Return(<<>>, NewError("Input number cannot be negative. Got %d",
                                        FormatInt(x)))
             ELSE IF x = 0 THEN Return(enc[1], nil)
             ELSE IF Len(enc) = 1
             THEN Return(<<>>,
                    NewError("Encoding must have at least two characters.", <<>>))
             ELSE Return(EncodeLoop(x, enc, <<>>), nil)

\* Encode returning the zero digit before it has run uniqueSet.
EncodeZeroFirst(x, enc_string) ==
    IF x < 0
    THEN Return(<<>>, NewError("Input number cannot be negative. Got %d",
                               FormatInt(x)))
    ELSE IF enc_string = <<>>
    THEN Return(<<>>, NewError("Encoding cannot be an empty string.", <<>>))
    ELSE LET enc == Split(enc_string)
             uerr == uniqueSet(enc)
         IN  IF x = 0 THEN Return(enc[1], nil)
             ELSE IF uerr # nil THEN Return(<<>>, uerr)
             ELSE IF Len(enc) = 1
             THEN Return(<<>>,
                    NewError("Encoding must have at least two characters.", <<>>))
             ELSE Return(EncodeLoop(x, enc, <<>>), nil)

Encode(x, enc_string) ==
    IF x < 0
    THEN Return(<<>>, NewError("Input number cannot be negative. Got %d",
                               FormatInt(x)))
    ELSE IF enc_string = <<>>
    THEN Return(<<>>, NewError("Encoding cannot be an empty string.", <<>>))
    ELSE LET enc == Split(enc_string)
             uerr == uniqueSet(enc)
         IN  IF uerr # nil THEN Return(<<>>, uerr)
             ELSE IF x = 0 THEN Return(enc[1], nil)
             ELSE IF Len(enc) = 1
             THEN Return(<<>>,
                    NewError("Encoding must have at least two characters.", <<>>))
             ELSE Return(EncodeLoop(x, enc, <<>>), nil)

\* The revision before the newest: the characters of the alphabet are the
\* segments of its NFC form.
Encode_NFC(x, enc_string) ==
    IF x < 0
    THEN Return(<<>>, NewError("Input number cannot be negative. Got %d",
                               FormatInt(x)))
    ELSE IF enc_string = <<>>
    THEN Return(<<>>, NewError("Encoding cannot be an empty string.", <<>>))
    ELSE LET enc == chars(enc_string)
             uerr == uniqueSet(enc)
         IN  IF uerr # nil THEN Return(<<>>, uerr)
             ELSE IF x = 0 THEN Return(enc[1], nil)
             ELSE IF Len(enc) = 1
             THEN Return(<<>>,
                    NewError("Encoding must have at least two characters.", <<>>))
             ELSE Return(EncodeLoop(x, enc, <<>>), nil)

\* The loop of unique_set from index i on, seen the set of strings met so far.
RECURSIVE unique_setFrom(_, _, _)
unique_setFrom(ss, i, seen) ==
    IF i > Len(ss) THEN nil
    ELSE IF ss[i] \in seen
         THEN NewError("\"%s\" appears multiple times.", ss[i])
         ELSE unique_setFrom(ss, i + 1, seen \cup {ss[i]})

unique_set(ss) == unique_setFrom(ss, 1, {})

\* A run time panic of Go, which ends the call without a result.
Panic(msg) == Return(<<>>, NewError(msg, <<>>))

\* The loop of the first revision.
RECURSIVE Encode_earlierLoop(_, _, _)
Encode_earlierLoop(quotient, enc, result) ==
    IF quotient = 0 THEN result
    ELSE LET decremented == quotient - 1
             length == Len(enc)
         IN  Encode_earlierLoop(Quo(decremented, length), enc,
                        enc[Rem(decremented, length) + 1] \o result)

\* The first revision without the increment of n.
Encode_earlierNoIncrement(x, enc_string) ==
    IF x < 0
    THEN Return(<<>>, NewError("Input number cannot be negative. Got %d.",
                               FormatInt(x)))
    ELSE LET enc == chars(enc_string)
         IN  IF Len(enc) = 0 /\ x # 0
             THEN Panic("panic: runtime error: integer divide by zero")
             ELSE Return(Encode_earlierLoop(x, enc, <<>>), nil)

\* The first revision: n is incremented so that the loop runs for 0, and the
\* alphabet is not validated; an empty one makes the division panic.
Encode_earlier(x, enc_string) ==
    IF x < 0
    THEN Return(<<>>, NewError("Input number cannot be negative. Got %d.",
                               FormatInt(x)))
    ELSE LET enc == chars(enc_string)
         IN  IF Len(enc) = 0
             THEN Panic("panic: runtime error: integer divide by zero")
             ELSE Return(Encode_earlierLoop(x + 1, enc, <<>>), nil)

AlphaEncoding ==
    <<"A", "B", "C", "D", "E", "F", "G", "H", "I", "J", "K", "L", "M",
      "N", "O", "P", "Q", "R", "S", "T", "U", "V", "W", "X", "Y", "Z",
      "a", "b", "c", "d", "e", "f", "g", "h", "i", "j", "k", "l", "m",
      "n", "o", "p", "q", "r", "s", "t", "u", "v", "w", "x", "y", "z">>

\* Alpha with the upper-case half of its alphabet only.
AlphaUpperOnly(x) == Encode(x, SubSeq(AlphaEncoding, 1, 26))

Alpha(x) == Encode(x, AlphaEncoding)

(***************************************************************************)
(* Roman.                                                                  *)
(***************************************************************************)
\* The table of Roman without its subtractive pairs.
multiplesAdditive ==
    <<[number |-> 1000, letter |-> <<"M">>],
      [number |-> 500, letter |-> <<"D">>],
      [number |-> 100, letter |-> <<"C">>],
      [number |-> 50, letter |-> <<"L">>],
      [number |-> 10, letter |-> <<"X">>],
      [number |-> 5, letter |-> <<"V">>],
      [number |-> 1, letter |-> <<"I">>]>>

multiples ==
    <<[number |-> 1000, letter |-> <<"M">>],
      [number |-> 900, letter |-> <<"C", "M">>],
      [number |-> 500, letter |-> <<"D">>],
      [number |-> 400, letter |-> <<"C", "D">>],
      [number |-> 100, letter |-> <<"C">>],
      [number |-> 90, letter |-> <<"X", "C">>],
      [number |-> 50, letter |-> <<"L">>],
      [number |-> 40, letter |-> <<"X", "L">>],
      [number |-> 10, letter |-> <<"X">>],
      [number |-> 9, letter |-> <<"I", "X">>],
      [number |-> 5, letter |-> <<"V">>],
      [number |-> 4, letter |-> <<"I", "V">>],
      [number |-> 1, letter |-> <<"I">>]>>

\* The loop of Roman over multiples from index i on.
RECURSIVE RomanLoop(_, _, _)
RomanLoop(x, i, s) ==
    IF i > Len(multiples) THEN s
    ELSE LET m == multiples[i]
         IN  RomanLoop(Rem(x, m.number), i + 1,
                       s \o Repeat(m.letter, Quo(x, m.number)))

\* Roman with the two guards folded into one n < 0 test.
RomanNegativeOnly(x) ==
    IF x < 0
    THEN Return(<<>>, NewError("Input cannot be a negative number. Got %d.",
                               FormatInt(x)))
    ELSE Return(RomanLoop(x, 1, <<>>), nil)

Roman(x) ==
    IF x = 0
    THEN Return(<<>>, NewError("Input cannot be 0.", <<>>))
    ELSE IF x < 0
    THEN Return(<<>>, NewError("Input cannot be a negative number. Got %d.",
                               FormatInt(x)))
    ELSE Return(RomanLoop(x, 1, <<>>), nil)

(***************************************************************************)
(* Word.                                                                   *)
(***************************************************************************)
units ==
    <<[number |-> 1000000000, word |-> <<"b", "i", "l", "l", "i", "o", "n">>],
      [number |-> 1000000, word |-> <<"m", "i", "l", "l", "i", "o", "n">>],
      [number |-> 1000, word |-> <<"t", "h", "o", "u", "s", "a", "n", "d">>],
      [number |-> 100, word |-> <<"h", "u", "n", "d", "r", "e", "d">>],
      [number |-> 90, word |-> <<"n", "i", "n", "e", "t", "y">>],
      [number |-> 80, word |-> <<"e", "i", "g", "h", "t", "y">>],
      [number |-> 70, word |-> <<"s", "e", "v", "e", "n", "t", "y">>],
      [number |-> 60, word |-> <<"s", "i", "x", "t", "y">>],
      [number |-> 50, word |-> <<"f", "i", "f", "t", "y">>],
      [number |-> 40, word |-> <<"f", "o", "u", "r", "t", "y">>],
      [number |-> 30, word |-> <<"t", "h", "i", "r", "t", "y">>],
      [number |-> 20, word |-> <<"t", "w", "e", "n", "t", "y">>],
      [number |-> 19, word |-> <<"n", "i", "n", "e", "t", "e", "e", "n">>],
      [number |-> 18, word |-> <<"e", "i", "g", "h", "t", "e", "e", "n">>],
      [number |-> 17, word |-> <<"s", "e", "v", "e", "n", "t", "e", "e", "n">>],
      [number |-> 16, word |-> <<"s", "i", "x", "t", "e", "e", "n">>],
      [number |-> 15, word |-> <<"f", "i", "f", "t", "e", "e", "n">>],
      [number |-> 14, word |-> <<"f", "o", "u", "r", "t", "e", "e", "n">>],
      [number |-> 13, word |-> <<"t", "h", "i", "r", "t", "e", "e", "n">>],
      [number |-> 12, word |-> <<"t", "w", "e", "l", "v", "e">>],
      [number |-> 11, word |-> <<"e", "l", "e", "v", "e", "n">>],
      [number |-> 10, word |-> <<"t", "e", "n">>],
      [number |-> 9, word |-> <<"n", "i", "n", "e">>],
      [number |-> 8, word |-> <<"e", "i", "g", "h", "t">>],
      [number |-> 7, word |-> <<"s", "e", "v", "e", "n">>],
      [number |-> 6, word |-> <<"s", "i", "x">>],
      [number |-> 5, word |-> <<"f", "i", "v", "e">>],
      [number |-> 4, word |-> <<"f", "o", "u", "r">>],
      [number |-> 3, word |-> <<"t", "h", "r", "e", "e">>],
      [number |-> 2, word |-> <<"t", "w", "o">>],
      [number |-> 1, word |-> <<"o", "n", "e">>]>>

\* The index of the first unit from i on with instances # 0 (the units before
\* it take the loop's "continue" and leave x and s as they are), or
\* Len(units) + 1 when the loop runs out of units.
NextUnit(x, i) ==
    LET hit == {j \in i..Len(units) : Quo(x, units[j].number) # 0}
    IN  IF hit = {} THEN Len(units) + 1
        ELSE CHOOSE j \in hit : \A k \in hit : j <= k

RECURSIVE Word(_), WordLoop(_, _, _)

\* WordLoop without the test for a trailing hyphen.
RECURSIVE WordLoopNoHyphenTest(_, _, _)
WordLoopNoHyphenTest(x, i, s) ==
    LET k == NextUnit(x, i)
    IN  IF k > Len(units) THEN s
        ELSE LET u == units[k]
                 instances == Quo(x, u.number)
                 left == Rem(x, u.number)
                 joined ==
                     IF Len(s) > 0
                     THEN s \o (IF u.number < 100
                                THEN <<" ", "a", "n", "d">> ELSE <<>>)
                            \o <<" ">>
                     ELSE s
             IN  IF instances = 1
                 THEN WordLoopNoHyphenTest(left, k + 1,
                        joined
                          \o (IF u.number >= 100
                              THEN <<"o", "n", "e", " ">> ELSE <<>>)
                          \o u.word
                          \o (IF u.number < 100 /\ left > 0
                              THEN <<"-">> ELSE <<>>))
                 ELSE WordLoopNoHyphenTest(left, k + 1,
                        joined \o Word(instances) \o <<" ">> \o u.word)

\* The loop of Word over units from index i on; x is what is left of n.
WordLoop(x, i, s) ==
    LET k == NextUnit(x, i)
    IN  IF k > Len(units) THEN s
        ELSE LET u == units[k]
                 instances == Quo(x, u.number)
                 left == Rem(x, u.number)
                 joined ==
                     IF Len(s) > 0 /\ ~HasSuffix(s, <<"-">>)
                     THEN s \o (IF u.number < 100
                                THEN <<" ", "a", "n", "d">> ELSE <<>>)
                            \o <<" ">>
                     ELSE s
             IN  IF instances = 1
                 THEN WordLoop(left, k + 1,
                        joined
                          \o (IF u.number >= 100
                              THEN <<"o", "n", "e", " ">> ELSE <<>>)
                          \o u.word
                          \o (IF u.number < 100 /\ left > 0
                              THEN <<"-">> ELSE <<>>))
                 ELSE WordLoop(left, k + 1,
                        joined \o Word(instances) \o <<" ">> \o u.word)

Word(x) ==
    IF x = 0 THEN <<"z", "e", "r", "o">>
    ELSE LET negative == x < 0
             s == WordLoop(IF x < 0 THEN Neg(x) ELSE x, 1, <<>>)
         IN  IF negative
             THEN <<"n", "e", "g", "a", "t", "i", "v", "e", " ">> \o s
             ELSE s

(***************************************************************************)
(* WordFloat.                                                              *)
(***************************************************************************)
RECURSIVE TenTo(_)
TenTo(k) == IF k = 0 THEN 1 ELSE 10 * TenTo(k - 1)

\* The float64 1.0 in the fixed-point representation.
FloatOne == TenTo(FracDigits)

\* int(v) of a float64 v: the value truncated toward zero.
IntOf(v) == Quo(v, FloatOne)

\* The loop of WordFloat from iteration i on; v is the fractional part left.
RECURSIVE WordFloatLoop(_, _, _, _)
WordFloatLoop(v, prec, i, s) ==
    IF ~(i < prec) THEN s
    ELSE LET d == IntOf(v * 10)
         IN  WordFloatLoop(v * 10 - d * FloatOne, prec, i + 1,
                           s \o <<" ">> \o Word(d))

WordFloat(v, prec) ==
    LET s == Word(IntOf(v))
        frac == v - IntOf(v) * FloatOne
    IN  WordFloatLoop(frac, prec, 0,
                      IF prec > 0 THEN s \o <<" ", "p", "o", "i", "n", "t">> ELSE s)

(***************************************************************************)
(* Bytes.                                                                  *)
(*                                                                         *)
(* f = float64(n) and f / unit are exact (unit is a power of two), so the  *)
(* scaled value is the rational n / unit: whole part n div unit, fraction  *)
(* (n mod unit) / unit.  The float64 constants 0.95, 0.1 and 0.9 differ    *)
(* from the decimals by less than 2^-53, and no n / unit lies in between,  *)
(* so the comparisons are those with the exact decimals.                   *)
(***************************************************************************)
kiB == 1024

miB == kiB * 1024

giB == miB * 1024

\* floor(unit * p / q), computed without leaving the int range.
MulDivFloor(unit, p, q) == p * (unit \div q) + (p * (unit % q)) \div q

\* x / unit > threshold, for "threshold := 0.95" and the unit's fraction of
\* 0.95 not an integer.
OverThresholdAtOne(x, unit) == x >= unit

OverThreshold(x, unit) == x > MulDivFloor(unit, 19, 20)

\* fractional < 0.1 || fractional > 0.9, r the numerator of the fraction.
NearWholeBelowOnly(r, unit) == r <= MulDivFloor(unit, 1, 10)

NearWhole(r, unit) ==
    r <= MulDivFloor(unit, 1, 10) \/ r > MulDivFloor(unit, 9, 10)

\* math.Round(x / unit): halves away from zero, x >= 0.
Round(x, unit) ==
    (x \div unit) + (IF 2 * (x % unit) >= unit THEN 1 ELSE 0)

\* <<q, m>> with k * r = q * unit + m and 0 <= m < unit, by k additions.
RECURSIVE TimesDivMod(_, _, _, _, _)
TimesDivMod(k, r, unit, q, m) ==
    IF k = 0 THEN <<q, m>>
    ELSE IF m + r >= unit THEN TimesDivMod(k - 1, r, unit, q + 1, m + r - unit)
    ELSE TimesDivMod(k - 1, r, unit, q, m + r)

\* x / unit in tenths, rounded to nearest, halves to even, as %.1f prints it.
Tenths(x, unit) ==
    LET qm == TimesDivMod(10, x % unit, unit, 0, 0)
        q == qm[1]
        m == qm[2]
        up == 2 * m > unit \/ (2 * m = unit /\ q % 2 = 1)
    IN  (x \div unit) * 10 + q + (IF up THEN 1 ELSE 0)

\* fmt.Sprintf("%.1f", x / unit).
FormatTenths(x, unit) ==
    LET t == Tenths(x, unit)
    IN  FormatInt(t \div 10) \o <<".">> \o FormatInt(t % 10)

\* The part of Bytes after the switch has chosen unit, with its name.
Scaled(x, unit, name) ==
    IF NearWhole(x % unit, unit)
    THEN FormatInt(Round(x, unit)) \o name
    ELSE FormatTenths(x, unit) \o name

Bytes(x) ==
    IF OverThreshold(x, giB) THEN Scaled(x, giB, <<"G", "B">>)
    ELSE IF OverThreshold(x, miB) THEN Scaled(x, miB, <<"M", "B">>)
    ELSE IF OverThreshold(x, kiB) THEN Scaled(x, kiB, <<"K", "B">>)
    ELSE FormatInt(x) \o <<"B">>

(***************************************************************************)
(* Inputs.                                                                 *)
(***************************************************************************)
\* The characters the enumerated alphabets are written in.
Symbols == {"a", "b", "c", "d"}

RECURSIVE StringsUpTo(_)
StringsUpTo(k) ==
    IF k = 0 THEN {<<>>}
    ELSE LET shorter == StringsUpTo(k - 1)
         IN  shorter \cup {Append(s, c) : s \in {t \in shorter : Len(t) = k - 1},
                                          c \in Symbols}

Decimal == <<"0", "1", "2", "3", "4", "5", "6", "7", "8", "9">>

Punctuation == <<"!", "@", "#", "$", "%", "^", "&", "*", "(", ")">>

\* The alphabets of the tests in kanji and emojis, and alphabets with a
\* combining mark: after a letter it composes with, after one it does not,
\* and beside the precomposed spelling of the same character.
UnicodeEncodings ==
    {<<"U+4E16", "U+754C">>,
     <<"U+1F600", "U+1F601", "U+1F602", "U+1F923", "U+1F604", "U+1F605">>,
     <<"e", "U+0301", "x">>,
     <<"x", "b", "U+0301">>,
     <<"U+00E9", "e", "U+0301">>,
     <<"e", "e", "U+0301">>}

\* Every string over Symbols up to the bound, and the alphabets of the tests.
Encodings ==
    StringsUpTo(MaxAlphabetLen) \cup {Decimal, Punctuation} \cup UnicodeEncodings

EncodeInputs == (-MaxNegative..MaxEncodeN) \cup {99, 100, 67427, 298648}

\* The calls of the first revision: its loop runs n + 1 times over an alphabet
\* of one character, which is tried with the small n only.
Encode_earlierInputs ==
    {call \in EncodeInputs \X Encodings :
        call[1] <= MaxEncodeN \/ Len(chars(call[2])) # 1}

AlphaInputs == -MaxNegative..MaxAlphaN

RomanInputs == (-MaxNegative..MaxRomanN) \cup {4859, 7412}

\* Every small int, and ints that reach each unit of Word and both ends of int.
WordInputs ==
    (-MaxWordN..MaxWordN)
        \cup {7232, -7232, 10000, 20000, 100000, 121005, 999999, 1000000,
              1000001, 2400000, -2400000, 19000019, 1000000000, 1000000100,
              2000000000, -2000000000, MaxInt, -MaxInt, MinInt}

\* Floats of up to FracDigits decimals, of either sign.
FloatInputs == -MaxFloat..MaxFloat

PrecisionInputs == 0..MaxPrecision

\* Every small count, the counts around each change of unit, the counts of
\* the doc comment that fit an int, and sixteenths of the first MB and GB.
BytesInputs ==
    (-MaxNegative..MaxBytesN)
        \cup UNION {(c - BytesWindow)..(c + BytesWindow) :
                      c \in {MulDivFloor(miB, 19, 20), miB,
                              MulDivFloor(giB, 19, 20), giB}}
        \cup {20000, 300000, 2000000, 30000000, 500000000, MaxInt}
        \cup {k * miB + j * (miB \div 16) : k \in 1..3, j \in 0..15}
        \cup {giB + j * (giB \div 16) : j \in 0..15}

(***************************************************************************)
(* The state machine: a call is drawn, then run to its return.             *)
(***************************************************************************)
Init ==
    /\ pc = "call"
    /\ ret = <<>>
    /\ err = nil
    /\ frame = [quotient |-> 0, result |-> <<>>, remainder |-> 0, iterations |-> 0]
    /\ \/ /\ fn \in {"Encode", "Encode_NFC", "Encode_permissive"}
          /\ n \in EncodeInputs /\ encoding \in Encodings
          /\ f = 0 /\ precision = 0
       \/ /\ fn = "Encode_earlier"
          /\ \E call \in Encode_earlierInputs : n = call[1] /\ encoding = call[2]
          /\ f = 0 /\ precision = 0
       \/ /\ fn = "Alpha" /\ n \in AlphaInputs /\ encoding = <<>>
          /\ f = 0 /\ precision = 0
       \/ /\ fn = "Roman" /\ n \in RomanInputs /\ encoding = <<>>
          /\ f = 0 /\ precision = 0
       \/ /\ fn = "Word" /\ n \in WordInputs /\ encoding = <<>>
          /\ f = 0 /\ precision = 0
       \/ /\ fn = "Bytes" /\ n \in BytesInputs /\ encoding = <<>>
          /\ f = 0 /\ precision = 0
       \/ /\ fn = "WordFloat" /\ f \in FloatInputs /\ precision \in PrecisionInputs
          /\ n = 0 /\ encoding = <<>>

CallEncode ==
    /\ pc = "call" /\ fn = "Encode"
    /\ LET r == Encode(n, encoding)
       IN  ret' = r.s /\ err' = r.err
    /\ pc' = "done"
    /\ UNCHANGED <<inputs, frame>>

CallEncode_NFC ==
    /\ pc = "call" /\ fn = "Encode_NFC"
    /\ LET r == Encode_NFC(n, encoding)
       IN  ret' = r.s /\ err' = r.err
    /\ pc' = "done"
    /\ UNCHANGED <<inputs, frame>>

CallEncode_earlier ==
    /\ pc = "call" /\ fn = "Encode_earlier"
    /\ LET r == Encode_earlier(n, encoding)
       IN  ret' = r.s /\ err' = r.err
    /\ pc' = "done"
    /\ UNCHANGED <<inputs, frame>>

\* Encode_permissive up to its loop: the checks of n and of the alphabet, the
\* return of the first character for 0, and the locals of the loop.
EnterEncode_permissive ==
    /\ pc = "call" /\ fn = "Encode_permissive"
    /\ LET enc == chars(encoding)
           uerr == unique_set(enc)
       IN  IF n < 0
           THEN /\ ret' = <<>>
                /\ err' = NewError("Input number cannot be negative. Got %d",
                                   FormatInt(n))
                /\ pc' = "done" /\ UNCHANGED frame
           ELSE IF encoding = <<>>
           THEN /\ ret' = <<>>
                /\ err' = NewError("Encoding cannot be an empty string.", <<>>)
                /\ pc' = "done" /\ UNCHANGED frame
           ELSE IF uerr # nil
           THEN /\ ret' = <<>> /\ err' = uerr
                /\ pc' = "done" /\ UNCHANGED frame
           ELSE IF n = 0
           THEN /\ ret' = enc[1] /\ err' = nil
                /\ pc' = "done" /\ UNCHANGED frame
           ELSE /\ frame' = [frame EXCEPT !.quotient = n]
                /\ pc' = "loop" /\ UNCHANGED <<ret, err>>
    /\ UNCHANGED inputs

\* One iteration of the loop of Encode_permissive.  The count of iterations
\* is kept beside the locals, and the model follows a call for
\* MaxIterations of them.
StepEncode_permissive ==
    /\ pc = "loop" /\ frame.quotient # 0
    /\ frame.iterations < MaxIterations
    /\ LET enc == chars(encoding)
           length == Len(enc)
           decremented == frame.quotient
           remainder == Rem(decremented, length)
       IN  frame' = [quotient |-> Quo(decremented, length),
                     remainder |-> remainder,
                     result |-> enc[remainder + 1] \o frame.result,
                     iterations |-> frame.iterations + 1]
    /\ UNCHANGED <<inputs, pc, ret, err>>

\* The loop of Encode_permissive is left when the quotient is 0.
ReturnEncode_permissive ==
    /\ pc = "loop" /\ frame.quotient = 0
    /\ ret' = frame.result /\ err' = nil
    /\ pc' = "done"
    /\ UNCHANGED <<inputs, frame>>

CallAlpha ==
    /\ pc = "call" /\ fn = "Alpha"
    /\ LET r == Alpha(n)
       IN  ret' = r.s /\ err' = r.err
    /\ pc' = "done"
    /\ UNCHANGED <<inputs, frame>>

CallRoman ==
    /\ pc = "call" /\ fn = "Roman"
    /\ LET r == Roman(n)
       IN  ret' = r.s /\ err' = r.err
    /\ pc' = "done"
    /\ UNCHANGED <<inputs, frame>>

\* Word returns a string and no error.
CallWord ==
    /\ pc = "call" /\ fn = "Word"
    /\ ret' = Word(n)
    /\ err' = nil
    /\ pc' = "done"
    /\ UNCHANGED <<inputs, frame>>

\* WordFloat returns a string and no error.
CallWordFloat ==
    /\ pc = "call" /\ fn = "WordFloat"
    /\ ret' = WordFloat(f, precision)
    /\ err' = nil
    /\ pc' = "done"
    /\ UNCHANGED <<inputs, frame>>

\* Bytes returns a string and no error.
CallBytes ==
    /\ pc = "call" /\ fn = "Bytes"
    /\ ret' = Bytes(n)
    /\ err' = nil
    /\ pc' = "done"
    /\ UNCHANGED <<inputs, frame>>

Next ==
    \/ CallEncode \/ CallAlpha \/ CallRoman \/ CallWord \/ CallWordFloat
    \/ CallBytes
    \/ CallEncode_NFC \/ CallEncode_earlier
    \/ EnterEncode_permissive \/ StepEncode_permissive
    \/ ReturnEncode_permissive

Spec == Init /\ [][Next]_vars

(***************************************************************************)
(* Vocabulary of the properties.                                           *)
(***************************************************************************)
Done(name) == pc = "done" /\ fn = name

Chars(s) == {s[i] : i \in 1..Len(s)}

Distinct(s) == \A i, j \in 1..Len(s) : i # j => s[i] # s[j]

ValidAlphabet(s) == Len(s) >= 2 /\ Distinct(s)

\* The digit value of character c in alphabet s: its 0-based position.
DigitOf(c, s) == (CHOOSE i \in 1..Len(s) : s[i] = c) - 1

RECURSIVE Pow(_, _)
Pow(b, k) == IF k = 0 THEN 1 ELSE b * Pow(b, k - 1)

\* Sum over the positions i.. of num of (digit value) * b^(position weight).
RECURSIVE PlaceSum(_, _, _)
PlaceSum(num, s, i) ==
    IF i > Len(num) THEN 0
    ELSE DigitOf(num[i], s) * Pow(Len(s), Len(num) - i) + PlaceSum(num, s, i + 1)

\* num is the standard place-value numeral of x in alphabet s.
IsNumeral(num, x, s) ==
    /\ Len(num) >= 1
    /\ Chars(num) \subseteq Chars(s)
    /\ x = 0 => num = <<s[1]>>
    /\ x > 0 => num[1] # s[1]
    /\ PlaceSum(num, s, 1) = x

\* a precedes b, of the same length, in lexicographic order by position in s.
LexLess(a, b, s) ==
    \E i \in 1..Len(a) :
        /\ \A j \in 1..(i - 1) : a[j] = b[j]
        /\ DigitOf(a[i], s) < DigitOf(b[i], s)

NegativeMsg == "Input number cannot be negative. Got %d"

EmptyMsg == "Encoding cannot be an empty string."

DuplicateMsg == "%q appears multiple times."

TooShortMsg == "Encoding must have at least two characters."

(***************************************************************************)
(* Encode.                                                                 *)
(***************************************************************************)
\* C1: for n >= 0 and an alphabet of b >= 2 distinct symbols Encode succeeds
\* and returns the standard place-value base-b numeral of n: digits of the
\* alphabet, most significant first, zero as the first symbol alone, no
\* leading zero digit when n > 0, and the place-value sum equal to n.
C1_EncodePlaceValue ==
    (Done("Encode") /\ n >= 0 /\ ValidAlphabet(encoding))
        => (err = nil /\ IsNumeral(ret, n, encoding))

C1_Witness ==
    /\ Done("Encode") /\ n = 67427 /\ encoding = Punctuation
    /\ ret = <<"&", "*", "%", "#", "*">>

C3_EncodeAlphabetErrors ==
    (Done("Encode") /\ n >= 0)
        => /\ encoding = <<>> => (ret = <<>> /\ err.msg = EmptyMsg)
           /\ ~Distinct(encoding)
                => /\ ret = <<>>
                   /\ err.msg = DuplicateMsg
                   /\ \E c \in Chars(encoding) :
                        /\ err.arg = <<"\"", c, "\"">>
                        /\ Cardinality({i \in 1..Len(encoding) : encoding[i] = c}) >= 2

C3_Witness ==
    /\ Done("Encode") /\ n = 0 /\ encoding = <<"a", "b", "a">>
    /\ err.msg = DuplicateMsg /\ ret = <<>>

\* C4: for n >= 0, n = 0 included, Encode with an alphabet of exactly one
\* symbol fails with the alphabet-too-short error and returns no numeral.
C4_EncodeSingleSymbolFails ==
    (Done("Encode") /\ n >= 0 /\ Len(encoding) = 1)
        => (ret = <<>> /\ err.msg = TooShortMsg)

\* C5: for a fixed alphabet of b >= 2 distinct symbols and 0 <= n1 < n2 (both
\* among the inputs), Encode(n1) is no longer than Encode(n2), and when the
\* lengths are equal Encode(n1) precedes Encode(n2) lexicographically by
\* alphabet position.
C5_EncodeMonotone ==
    (Done("Encode") /\ n >= 0 /\ ValidAlphabet(encoding))
        => \A n1 \in EncodeInputs :
             (0 <= n1 /\ n1 < n)
                => LET e1 == Encode(n1, encoding).s
                   IN  /\ Len(e1) <= Len(ret)
                       /\ Len(e1) = Len(ret) => LexLess(e1, ret, encoding)

C5_Witness ==
    /\ Done("Encode") /\ n = 5 /\ encoding = <<"a", "b", "c">>
    /\ Len(Encode(4, encoding).s) = Len(ret)
    /\ Len(Encode(2, encoding).s) < Len(ret)

(***************************************************************************)
(* Alpha.                                                                  *)
(***************************************************************************)
UpperCase ==
    <<"A", "B", "C", "D", "E", "F", "G", "H", "I", "J", "K", "L", "M",
      "N", "O", "P", "Q", "R", "S", "T", "U", "V", "W", "X", "Y", "Z">>

LowerCase ==
    <<"a", "b", "c", "d", "e", "f", "g", "h", "i", "j", "k", "l", "m",
      "n", "o", "p", "q", "r", "s", "t", "u", "v", "w", "x", "y", "z">>

C7_RomanErrors ==
    Done("Roman")
        => /\ n = 0 => (ret = <<>> /\ err.msg = "Input cannot be 0.")
           /\ n < 0 => /\ ret = <<>>
                       /\ err.msg = "Input cannot be a negative number. Got %d."
           /\ n >= 1 => (err = nil /\ ret # <<>>)

C7_Witness == Done("Roman") /\ n = 0 /\ err.msg = "Input cannot be 0."

\* The standard subtractive numerals of 0..9 hundreds, tens and ones.
StdHundreds ==
    << <<>>, <<"C">>, <<"C", "C">>, <<"C", "C", "C">>, <<"C", "D">>, <<"D">>,
       <<"D", "C">>, <<"D", "C", "C">>, <<"D", "C", "C", "C">>, <<"C", "M">> >>

StdTens ==
    << <<>>, <<"X">>, <<"X", "X">>, <<"X", "X", "X">>, <<"X", "L">>, <<"L">>,
       <<"L", "X">>, <<"L", "X", "X">>, <<"L", "X", "X", "X">>, <<"X", "C">> >>

StdOnes ==
    << <<>>, <<"I">>, <<"I", "I">>, <<"I", "I", "I">>, <<"I", "V">>, <<"V">>,
       <<"V", "I">>, <<"V", "I", "I">>, <<"V", "I", "I", "I">>, <<"I", "X">> >>

LetterValue(c) ==
    CASE c = "M" -> 1000 [] c = "D" -> 500 [] c = "C" -> 100 [] c = "L" -> 50
      [] c = "X" -> 10 [] c = "V" -> 5 [] c = "I" -> 1

\* The value read off a Roman numeral: a letter before a larger one subtracts.
RECURSIVE RomanValue(_, _)
RomanValue(s, i) ==
    IF i > Len(s) THEN 0
    ELSE (IF i < Len(s) /\ LetterValue(s[i]) < LetterValue(s[i + 1])
          THEN -LetterValue(s[i]) ELSE LetterValue(s[i]))
         + RomanValue(s, i + 1)

\* Letter c occurs k times in a row somewhere in s.
HasRun(s, c, k) ==
    \E i \in 1..(Len(s) - k + 1) : \A j \in i..(i + k - 1) : s[j] = c

\* The number of places of s where the two-letter symbol ab stands.
PairCount(s, a, b) ==
    Cardinality({i \in 1..(Len(s) - 1) : s[i] = a /\ s[i + 1] = b})

\* C8: for n >= 1 Roman(n) is "M" repeated n div 1000 times followed by the
\* standard subtractive numeral of n mod 1000; its symbols' magnitudes sum to
\* n, each of CM, D, CD, XC, L, XL, IX, V, IV occurs at most once, and C, X, I
\* never occur four times in a row.
C8_RomanStandardForm ==
    (Done("Roman") /\ n >= 1)
        => /\ ret = Repeat(<<"M">>, n \div 1000)
                      \o StdHundreds[((n % 1000) \div 100) + 1]
                      \o StdTens[((n % 100) \div 10) + 1]
                      \o StdOnes[(n % 10) + 1]
           /\ RomanValue(ret, 1) = n
           /\ \A c \in {"C", "X", "I"} : ~HasRun(ret, c, 4)
           /\ \A c \in {"D", "L", "V"} : ~HasRun(ret, c, 2)
           /\ \A p \in {<<"C", "M">>, <<"C", "D">>, <<"X", "C">>, <<"X", "L">>,
                        <<"I", "X">>, <<"I", "V">>} :
                PairCount(ret, p[1], p[2]) <= 1

C8_Witness ==
    /\ Done("Roman") /\ n = 1991
    /\ ret = <<"M", "C", "M", "X", "C", "I">>

(***************************************************************************)
(* Word.                                                                   *)
(***************************************************************************)
\* The number of places of s where w stands.
Occurrences(w, s) ==
    Cardinality({i \in 1..(Len(s) - Len(w) + 1) :
                    SubSeq(s, i, i + Len(w) - 1) = w})

HasPrefix(s, prefix) ==
    Len(s) >= Len(prefix) /\ SubSeq(s, 1, Len(prefix)) = prefix

NegativeWord == <<"n", "e", "g", "a", "t", "i", "v", "e">>

\* The rendition of the absolute value of x < 0. -MinInt is no int: it is
\* MaxInt + 1, which differs from MaxInt (ending in 7) in the ones digit
\* alone, so its rendition is that of MaxInt with "seven" turned into "eight".
WordOfMagnitude(x) ==
    IF x # MinInt THEN Word(-x)
    ELSE LET m == Word(MaxInt)
         IN  SubSeq(m, 1, Len(m) - 5) \o <<"e", "i", "g", "h", "t">>

\* C9: for every int n < 0, the most negative one included, Word(n) is
\* "negative " followed by the rendition of the absolute value of n, with the
\* word "negative" exactly once, at the start; and Word(0) = "zero".
C9_WordNegative ==
    Done("Word")
        => /\ n = 0 => ret = <<"z", "e", "r", "o">>
           /\ n < 0 => /\ ret = NegativeWord \o <<" ">> \o WordOfMagnitude(n)
                       /\ HasPrefix(ret, NegativeWord \o <<" ">>)
                       /\ Occurrences(NegativeWord, ret) = 1

\* The word of the table entry whose number is x.
TableWord(x) == units[CHOOSE i \in 1..Len(units) : units[i].number = x].word

IsTableNumber(x) == \E i \in 1..Len(units) : units[i].number = x

\* The largest of hundred, thousand, million, billion that is <= x, x >= 100.
TopUnit(x) ==
    IF x >= 1000000000 THEN 1000000000
    ELSE IF x >= 1000000 THEN 1000000
    ELSE IF x >= 1000 THEN 1000
    ELSE 100

AndWord == <<"a", "n", "d">>

\* C10: the joining rules of Word for n >= 1.  With r = n mod 100: when
\* n >= 100 and r # 0, Word(n) = Word(n - r) + " and " + Word(r); when
\* n < 100, Word(n) has no "and" and is one table word or, for 21..99 not a
\* multiple of ten, tens-word "-" ones-word; units of 100 and above are joined
\* by single spaces, a lone instance written "one "; the result never ends
\* with a hyphen or a space.
C10_WordJoining ==
    (Done("Word") /\ n >= 1)
        => LET r == n % 100
           IN  /\ (n >= 100 /\ r # 0)
                    => ret = Word(n - r) \o <<" ">> \o AndWord \o <<" ">> \o Word(r)
               /\ n < 100
                    => /\ Occurrences(AndWord, ret) = 0
                       /\ IF IsTableNumber(n) THEN ret = TableWord(n)
                          ELSE /\ n > 20 /\ n % 10 # 0
                               /\ ret = TableWord(n - (n % 10)) \o <<"-">>
                                          \o TableWord(n % 10)
               /\ n >= 100
                    => LET u == TopUnit(n)
                           k == n \div u
                           rest == n % u
                       IN  /\ ret = Word(k) \o <<" ">> \o TableWord(u)
                                      \o (IF rest = 0 THEN <<>>
                                          ELSE IF rest < 100
                                          THEN <<" ">> \o AndWord \o <<" ">>
                                                 \o Word(rest)
                                          ELSE <<" ">> \o Word(rest))
                           /\ k = 1 => HasPrefix(ret, <<"o", "n", "e", " ">>
                                                        \o TableWord(u))
               /\ Occurrences(<<" ", " ">>, ret) = 0
               /\ ret # <<>> /\ ret[Len(ret)] \notin {"-", " "}

C10_Witness ==
    /\ Done("Word") /\ n = 7232
    /\ ret = <<"s", "e", "v", "e", "n", " ", "t", "h", "o", "u", "s", "a", "n", "d",
               " ", "t", "w", "o", " ", "h", "u", "n", "d", "r", "e", "d", " ",
               "a", "n", "d", " ", "t", "h", "i", "r", "t", "y", "-", "t", "w", "o">>

(***************************************************************************)
(* WordFloat.                                                              *)
(***************************************************************************)
DigitWords ==
    << <<"z", "e", "r", "o">>, <<"o", "n", "e">>, <<"t", "w", "o">>,
       <<"t", "h", "r", "e", "e">>, <<"f", "o", "u", "r">>, <<"f", "i", "v", "e">>,
       <<"s", "i", "x">>, <<"s", "e", "v", "e", "n">>, <<"e", "i", "g", "h", "t">>,
       <<"n", "i", "n", "e">> >>

\* The i-th decimal digit after the point of the fixed-point number v.
FractionDigit(v, i) ==
    LET frac == (IF v < 0 THEN -v ELSE v) % FloatOne
    IN  ((frac * TenTo(i)) \div FloatOne) % 10

\* " " + the digit-word of each of the decimal digits i..prec of v.
RECURSIVE DigitWordsFrom(_, _, _)
DigitWordsFrom(v, i, prec) ==
    IF i > prec THEN <<>>
    ELSE <<" ">> \o DigitWords[FractionDigit(v, i) + 1]
           \o DigitWordsFrom(v, i + 1, prec)

\* C11: WordFloat(f, precision) is Word(integer part of f) when
\* precision = 0, and otherwise Word(integer part of f) + " point" followed by
\* precision space-separated words, each one of zero..nine and equal to the
\* successive decimal digits of the fractional part of f, for f of either
\* sign.
C11_WordFloatDigits ==
    Done("WordFloat")
        => /\ precision = 0 => ret = Word(IntOf(f))
           /\ precision > 0
                => ret = Word(IntOf(f)) \o <<" ", "p", "o", "i", "n", "t">>
                           \o DigitWordsFrom(f, 1, precision)

(***************************************************************************)
(* Bytes.                                                                  *)
(***************************************************************************)
IsDigit(c) == c \in {"0", "1", "2", "3", "4", "5", "6", "7", "8", "9"}

\* The number of digits s starts with.
LeadingDigits(s) ==
    CHOOSE k \in 0..Len(s) :
        /\ \A i \in 1..k : IsDigit(s[i])
        /\ k < Len(s) => ~IsDigit(s[k + 1])

\* The number the digits s[1..k] write in decimal.
RECURSIVE DecimalOf(_, _)
DecimalOf(s, k) ==
    IF k = 0 THEN 0
    ELSE 10 * DecimalOf(s, k - 1)
           + (CHOOSE d \in 0..9 : DigitChars[d + 1] = s[k])

\* The unit the claim assigns to a count x >= 0: the largest of GB, MB, KB
\* with x / unit_size > 0.95, where 0.95 * 2^10 = 972.8,
\* 0.95 * 2^20 = 996147.2 and 0.95 * 2^30 = 1020054732.8; else plain bytes.
UnitName(x) ==
    IF x > 1020054732 THEN <<"G", "B">>
    ELSE IF x > 996147 THEN <<"M", "B">>
    ELSE IF x > 972 THEN <<"K", "B">>
    ELSE <<"B">>

UnitSize(x) ==
    IF x > 1020054732 THEN 1024 * 1024 * 1024
    ELSE IF x > 996147 THEN 1024 * 1024
    ELSE 1024

\* C12: for n >= 0, Bytes(n) is the decimal of n followed by "B", without a
\* decimal point, exactly when n <= 972 (n / 1024 <= 0.95); otherwise its unit
\* is GB when n / 2^30 > 0.95, else MB when n / 2^20 > 0.95, else KB, and the
\* number shown is at least 1 and below 1024 (600 -> "600B", 1000 -> "1KB").
C12_BytesUnit ==
    (Done("Bytes") /\ n >= 0)
        => LET k == LeadingDigits(ret)
               shown == DecimalOf(ret, k)
           IN  /\ n <= 972 <=> ret = FormatInt(n) \o <<"B">>
               /\ n <= 972 => Occurrences(<<".">>, ret) = 0
               /\ HasSuffix(ret, UnitName(n))
               /\ n > 972 => /\ k >= 1
                             /\ ret[k + 1] \in {".", "K", "M", "G"}
                             /\ shown >= 1 /\ shown < 1024
               /\ n = 600 => ret = <<"6", "0", "0", "B">>
               /\ n = 1000 => ret = <<"1", "K", "B">>

C12_Witness == Done("Bytes") /\ n = 1000 /\ ret = <<"1", "K", "B">>

\* a * unit / 10 <= r, a >= 0, computed without leaving the int range.
AtLeastTenths(r, a, unit) ==
    IF (a * (unit % 10)) % 10 = 0
    THEN r >= MulDivFloor(unit, a, 10)
    ELSE r > MulDivFloor(unit, a, 10)

\* C13: when Bytes chooses a unit and x = n / unit_size, it shows x rounded to
\* the nearest integer, without a decimal point, if the fractional part of x
\* is below 0.1 or above 0.9, and otherwise x with exactly one decimal place;
\* a shown decimal digit is never 0 and the value shown is within 0.1 of x.
C13_BytesPrecision ==
    (Done("Bytes") /\ n > 972)
        => LET unit == UnitSize(n)
               whole == n \div unit
               r == n % unit
               below == r <= (unit - 1) \div 10
               above == unit - r <= (unit - 1) \div 10
           IN  IF below \/ above
               THEN /\ ret = FormatInt(IF below THEN whole ELSE whole + 1)
                               \o UnitName(n)
                    /\ Occurrences(<<".">>, ret) = 0
               ELSE \E d \in 1..9 :
                        /\ ret = FormatInt(whole) \o <<".">> \o FormatInt(d)
                                   \o UnitName(n)
                        /\ AtLeastTenths(r, d - 1, unit)
                        /\ r <= MulDivFloor(unit, d + 1, 10)

C13_Witness ==
    /\ Done("Bytes") /\ n = 20000
    /\ ret = <<"1", "9", ".", "5", "K", "B">>

(***************************************************************************)
(* Encode and the characters of its alphabet.                              *)
(***************************************************************************)
\* C14: the radix of Encode is the number of characters of the alphabet after
\* canonical composition: a multi-byte character is one digit, a letter
\* followed by a combining mark is one digit, and an alphabet holding two
\* canonically equivalent spellings of one character is rejected as having a
\* duplicate.
C14_EncodeCharacters ==
    (Done("Encode") /\ n >= 0 /\ encoding # <<>>)
        => LET cc == chars(encoding)
           IN  /\ ~Distinct(cc) => (ret = <<>> /\ err.msg = DuplicateMsg)
               /\ (Distinct(cc) /\ Len(cc) >= 2)
                    => /\ err = nil
                       /\ n < Len(cc) => ret = cc[n + 1]
                       /\ n = Len(cc) => ret = cc[2] \o cc[1]

(***************************************************************************)
(* Termination of Encode.                                                  *)
(***************************************************************************)
\* The number of digits of x > 0 in base b >= 2.
RECURSIVE DigitCount(_, _)
DigitCount(x, b) == IF x < b THEN 1 ELSE 1 + DigitCount(x \div b, b)

\* C15: the loop of Encode runs once per digit of n in the base of the
\* alphabet and then the call returns; in the revision with no minimum
\* length, a call with n > 0 and an alphabet of one character fails at its
\* first division, so that no iteration of its loop completes.
C15_EncodeTerminates ==
    (fn = "Encode_permissive" /\ pc \in {"loop", "done"} /\ n > 0 /\ err = nil)
        => LET b == Len(chars(encoding))
           IN  /\ b >= 2 => /\ frame.iterations <= DigitCount(n, b)
                            /\ pc = "done" => frame.iterations = DigitCount(n, b)
               /\ b = 1 => frame.iterations = 0

(***************************************************************************)
(* The first revision of Encode beside the place-value revision.           *)
(***************************************************************************)
\* An alphabet both revisions take: at least two characters, all different.
ValidCharacters(s) == Distinct(chars(s)) /\ Len(chars(s)) >= 2

\* C16 as stated: over a valid alphabet the first revision returns a string
\* different from the place-value revision's for every n above the radix,
\* and for n = 10 over "0123456789" it returns "11" where the place-value
\* revision returns "10".
C16_EarlierRevisionEleven ==
    (Done("Encode_earlier") /\ n >= 0 /\ ValidCharacters(encoding))
        => /\ n > Len(chars(encoding)) => ret # Encode_NFC(n, encoding).s
           /\ (n = 10 /\ encoding = Decimal)
                => /\ ret = <<"1", "1">>
                   /\ Encode_NFC(n, encoding).s = <<"1", "0">>

\* C16 amended: over a valid alphabet the first revision returns a string
\* different from the place-value revision's for every n that reaches or
\* exceeds the radix, and for n = 10 over "0123456789" it returns "00" where
\* the place-value revision returns "10".
C16_EarlierRevisionDiffers ==
    (Done("Encode_earlier") /\ n >= 0 /\ ValidCharacters(encoding))
        => /\ n >= Len(chars(encoding)) => ret # Encode_NFC(n, encoding).s
           /\ (n = 10 /\ encoding = Decimal)
                => /\ ret = <<"0", "0">>
                   /\ Encode_NFC(n, encoding).s = <<"1", "0">>

C16_Witness ==
    /\ Done("Encode_earlier") /\ n = 10 /\ encoding = Decimal
    /\ ret = <<"0", "0">> /\ err = nil

====
